---- MODULE Spec2Model ----
(***************************************************************************)
(* Model of the hn-ai-scraper ingestion pipeline (hn_scraper/scraper.py,   *)
(* processor.py, fetcher.py, hn_client.py, models.py, db.py).              *)
(*                                                                         *)
(* Conventions.  A Python Optional is a sequence of length 0 (None) or 1.  *)
(* A short string (title, url, keyword) is a sequence of one-character     *)
(* strings.  A long text (article body) is run-length encoded: a sequence  *)
(* of segments [c |-> character, n |-> repetitions], always normalised so  *)
(* that equal texts have equal encodings.  A JSON object is a record of    *)
(* Optionals (absent key = <<>>).  relevance is in tenths.                 *)
(***************************************************************************)
EXTENDS Integers, Sequences, FiniteSets, TLC

\* ---------------------------------------------------------------- bounds
MaxProcs == 2    \* processes sharing the database
MaxFeedLen == 2  \* length of the feed's ranking

Procs == 1..MaxProcs
Ids == {1, 2}    \* the identifiers the feed draws from
Main == CHOOSE p \in Procs : \A q \in Procs : p <= q

\* ------------------------------------------------------ program constants
MAX_TEXT_LENGTH == 20000
HN_MAX_STORIES == 100
MIN_ARTICLE_CHARS == 100

\* --------------------------------------------------------------- Optional
None == <<>>
Some(v) == <<v>>

\* dict.get(key, default): o is the Optional held under the key
Get(o, default) == IF o = <<>> THEN default ELSE o[1]

Min(a, b) == IF a < b THEN a ELSE b

\* ---------------------------------------------------------- short strings
Lower(c) == CASE c = "G" -> "g" [] c = "P" -> "p" [] c = "A" -> "a" [] OTHER -> c

StrLower(s) == [i \in 1..Len(s) |-> Lower(s[i])]

\* Python `needle in hay`
Contains(hay, needle) ==
  \E i \in 0..(Len(hay) - Len(needle)) :
     \A j \in 1..Len(needle) : hay[i + j] = needle[j]

\* ------------------------------------------------------------- long texts
RECURSIVE TextLen(_)
TextLen(t) == IF t = <<>> THEN 0 ELSE t[1].n + TextLen(Tail(t))

\* t[:k]
RECURSIVE Take(_, _)
Take(t, k) ==
  IF t = <<>> \/ k <= 0 THEN <<>>
  ELSE IF t[1].n >= k THEN <<[c |-> t[1].c, n |-> k]>>
       ELSE <<t[1]>> \o Take(Tail(t), k - t[1].n)

IsSpace(c) == c \in {" ", "\n"}

\* str.strip(): drop leading and trailing whitespace runs
RECURSIVE LStrip(_)
LStrip(t) == IF t # <<>> /\ IsSpace(t[1].c) THEN LStrip(Tail(t)) ELSE t

RECURSIVE RStrip(_)
RStrip(t) ==
  IF t # <<>> /\ IsSpace(t[Len(t)].c) THEN RStrip(SubSeq(t, 1, Len(t) - 1)) ELSE t

Strip(t) == RStrip(LStrip(t))

\* ------------------------------------------------- scraper.matches_keywords
\* f"{title} {url or ''}".lower(), then any(keyword in text ...)
matches_keywords(KW, title, url) ==
  IF KW = <<>> THEN TRUE
  ELSE LET text_to_check == StrLower(title \o <<" ">> \o Get(url, <<>>))
       IN  \E k \in 1..Len(KW) : Contains(text_to_check, KW[k])

\* ----------------------------------------------- fetcher.fetch_article_text
\* newspaper: NEWSPAPER_AVAILABLE.  primary / fallback: what the strategy
\* produced, None when it raised (download, parse, HTTP status, ...).
\* variant: the length taken of the text as extracted
AcceptableText_Untrimmed(t) == t # <<>> /\ TextLen(t) > MIN_ARTICLE_CHARS

\* `text and len(text.strip()) > 100`
AcceptableText(t) == t # <<>> /\ TextLen(Strip(t)) > MIN_ARTICLE_CHARS

fetch_article_text(url, newspaper, primary, fallback) ==
  IF url = <<>> THEN None
  ELSE IF newspaper /\ primary # None /\ AcceptableText(primary[1])
       THEN Some(primary[1])
  ELSE IF fallback # None /\ AcceptableText(fallback[1])
       THEN Some(Strip(fallback[1]))
  ELSE None

\* ------------------------------------------ processor.classify_and_summarize
\* The upstream reply is [ok, content]: ok = FALSE is a failed API call;
\* content is the message text as a token sequence over "p" (prose or fence
\* text), "{", "}" and the names of JSON object bodies.
EmptyObject ==
  [is_related |-> None, category |-> None, subcategory |-> None,
   summary |-> None, tags |-> None, relevance |-> None]

FullRelated ==
  [is_related |-> Some(TRUE), category |-> Some("AI"), subcategory |-> Some("LLM"),
   summary |-> Some("sum"), tags |-> Some(<<"gpt", "llm">>), relevance |-> Some(9)]

BodyObject(b) ==
  CASE b = "related"       -> FullRelated
    [] b = "unrelated"     -> [FullRelated EXCEPT !.is_related = Some(FALSE), !.relevance = Some(1)]
    [] b = "no_summary"    -> [FullRelated EXCEPT !.summary = None]
    [] b = "no_is_related" -> [FullRelated EXCEPT !.is_related = None]
    [] OTHER               -> EmptyObject

Bodies == {"related", "unrelated", "no_summary", "no_is_related"}

RequiredKeys == {"is_related", "category", "subcategory", "summary", "tags", "relevance"}

\* re.search(r'\{.*\}', content, re.DOTALL): leftmost "{" that has a "}"
\* after it, extended greedily to the last "}" of the content.
Opens(content) ==
  {i \in 1..Len(content) : content[i] = "{" /\ \E j \in (i + 1)..Len(content) : content[j] = "}"}

Closes(content) == {j \in 1..Len(content) : content[j] = "}"}

SetMin(S) == CHOOSE x \in S : \A y \in S : x <= y
SetMax(S) == CHOOSE x \in S : \A y \in S : x >= y

json_match(content) ==
  IF Opens(content) = {} THEN content
  ELSE SubSeq(content, SetMin(Opens(content)), SetMax(Closes(content)))

\* json.loads: Some(object) when the text is exactly one JSON object, None
\* when decoding raises JSONDecodeError (or yields a non-object, on which
\* result.get raises AttributeError; both paths return the same default).
json_loads(content) ==
  IF content = <<"{", "}">> THEN Some(EmptyObject)
  ELSE IF Len(content) = 3 /\ content[1] = "{" /\ content[3] = "}" /\ content[2] \in Bodies
       THEN Some(BodyObject(content[2]))
  ELSE None

\* ",".join(tags)
RECURSIVE JoinTags(_)
JoinTags(tags) ==
  IF tags = <<>> THEN ""
  ELSE IF Len(tags) = 1 THEN tags[1]
  ELSE tags[1] \o "," \o JoinTags(Tail(tags))

\* variant: the fallback verdict lets the item through
DefaultVerdict_Related ==
  [is_related |-> TRUE, category |-> None, subcategory |-> None,
   summary |-> "", tags |-> "", relevance |-> 0]

\* the dict returned by the two except branches
DefaultVerdict ==
  [is_related |-> FALSE, category |-> None, subcategory |-> None,
   summary |-> "", tags |-> "", relevance |-> 0]

\* the dict built at the end of the try block, missing keys defaulted
VerdictOf(result) ==
  [is_related  |-> Get(result.is_related, FALSE),
   category    |-> result.category,
   subcategory |-> result.subcategory,
   summary     |-> Get(result.summary, ""),
   tags        |-> IF result.tags = None THEN "" ELSE JoinTags(result.tags[1]),
   relevance   |-> Get(result.relevance, 0)]

\* The return value, as the Optional the caller tests with `if not
\* classification`: the function returns a dict on every path.
classify_and_summarize(title, url, text, reply) ==
  IF ~reply.ok THEN Some(DefaultVerdict)
  ELSE LET result == json_loads(json_match(reply.content))
       IN  IF result = None THEN Some(DefaultVerdict)
           ELSE Some(VerdictOf(result[1]))
\* ------------------------------------------------------------------ inputs
\* Configuration read from the environment at import.
\* KEYWORDS is a list of stripped, lower-cased, non-empty keywords.
KeywordConfigs ==
  { <<>>,
    << <<"q">> >>,
    << <<"q">>, <<"g", "p">> >>,
    << <<"x", "a">> >>,
    << <<"a", " ", "b">> >> }
MinScoreConfigs == {10, 50}

\* The feed's ranking, as the payload of topstories.json: nothing in the
\* client requires its identifiers to be distinct.
Feeds == UNION {[1..n -> Ids] : n \in 0..MaxFeedLen}

\* The `limit` argument of run_once.
Limits == {None, Some(0), Some(1)}

StoryItem(score, title, url) ==
  [type |-> Some("story"), score |-> score, title |-> Some(title), url |-> url]

\* Item details as returned by fetch_item; None is a failed request or a
\* JSON null.
Items ==
  { None,
    Some([type |-> Some("job"), score |-> Some(60), title |-> Some(<<"G", "P">>), url |-> None]),
    Some([type |-> None, score |-> Some(60), title |-> Some(<<"G", "P">>), url |-> None]),
    Some(StoryItem(None, <<"G", "P">>, None)),
    Some(StoryItem(Some(9), <<"G", "P">>, Some(<<"u">>))),
    Some(StoryItem(Some(49), <<"x", "A">>, Some(<<"b", "G", "p">>))),
    Some(StoryItem(Some(50), <<"x">>, None)) }

RaceItems == { None, Some(StoryItem(Some(50), <<"x">>, Some(<<"u">>))) }

RaceFeeds == { <<1, 2>>, <<2, 1>> }

\* What an extraction strategy can produce (None: it raised).
Seg(c, n) == [c |-> c, n |-> n]
PageShort == <<Seg("a", 80)>>
PagePadded == <<Seg(" ", 30), Seg("a", 80), Seg("\n", 30)>>
PageOk == <<Seg(" ", 2), Seg("a", 101), Seg("\n", 1)>>
PageOver == <<Seg("a", 20000), Seg("b", 1)>>

PrimaryResults == {None, Some(PagePadded), Some(PageOver)}
FallbackResults == {None, Some(PageShort), Some(PageOk)}

\* Replies of the chat-completion call.
Reply(ok, content) == [ok |-> ok, content |-> content]

Replies ==
  { Reply(FALSE, <<>>),
    Reply(TRUE, <<"p">>),
    Reply(TRUE, <<"{", "related", "}">>),
    Reply(TRUE, <<"p", "{", "related", "}", "p">>),
    Reply(TRUE, <<"{", "unrelated", "}">>),
    Reply(TRUE, <<"{", "no_is_related", "}">>),
    Reply(TRUE, <<"{", "related", "}", "p", "{", "}">>) }

RaceReplies == { Reply(TRUE, <<"{", "related", "}">>) }

NoReply == Reply(FALSE, <<"-">>)

\* ------------------------------------------------------------------- state
VARIABLES
  KEYWORDS,          \* scraper.KEYWORDS
  SCRAPE_MIN_SCORE,  \* scraper.SCRAPE_MIN_SCORE
  store,             \* the stories table, rows in insertion order
  pc,                \* per process: position in run_once
  story_ids,         \* per process: the list returned by fetch_top_story_ids
  idx,               \* per process: enumerate index of the loop
  item,              \* per process: local `item`
  article_text,      \* per process: local `article_text`
  classification,    \* per process: local `classification`
  processed_count,   \* per process: local counter
  saved_count,       \* per process: local counter
  listing,           \* history: outcome of the identifier listing
  storedAtStart,     \* history: hn_ids in the store when the run began
  attempted,         \* history: identifiers passed to fetch_item, in order
  reply,             \* history: the upstream reply classified for `item`
  outcome,           \* history: what the last finished iteration logged
  inserted,          \* history: per identifier, commits that succeeded for it
  call               \* a function call on its own: arguments and return value

vars ==
  <<KEYWORDS, SCRAPE_MIN_SCORE, store, pc, story_ids, idx, item, article_text,
    classification, processed_count, saved_count, listing, storedAtStart,
    attempted, reply, outcome, inserted, call>>

config == <<KEYWORDS, SCRAPE_MIN_SCORE, call>>
counters == <<processed_count, saved_count>>

Active(r) == pc[r] \notin {"idle", "done", "raised"}

\* no function call is being examined on its own
NoCall == [fn |-> "-"]

\* the database is empty and no process has called run_once yet
Idle ==
  /\ store = <<>>
  /\ pc = [r \in Procs |-> "idle"]
  /\ story_ids = [r \in Procs |-> <<>>]
  /\ idx = [r \in Procs |-> 0]
  /\ item = [r \in Procs |-> None]
  /\ article_text = [r \in Procs |-> None]
  /\ classification = [r \in Procs |-> None]
  /\ processed_count = [r \in Procs |-> 0]
  /\ saved_count = [r \in Procs |-> 0]
  /\ listing = [r \in Procs |-> "none"]
  /\ storedAtStart = [r \in Procs |-> {}]
  /\ attempted = [r \in Procs |-> <<>>]
  /\ reply = [r \in Procs |-> NoReply]
  /\ outcome = [r \in Procs |-> "-"]
  /\ inserted = [h \in Ids |-> 0]

Init ==
  /\ KEYWORDS \in KeywordConfigs
  /\ SCRAPE_MIN_SCORE \in MinScoreConfigs
  /\ call = NoCall
  /\ Idle

\* ------------------------------------------------------------ loop control
\* Values of the loop-body locals after this step.  A local is cleared when
\* the iteration ends: the next iteration assigns it before reading it.
Locals(r, it, txt, cls, rep) ==
  /\ item' = [item EXCEPT ![r] = it]
  /\ article_text' = [article_text EXCEPT ![r] = txt]
  /\ classification' = [classification EXCEPT ![r] = cls]
  /\ reply' = [reply EXCEPT ![r] = rep]

\* stay in the current iteration, at position p
Goto(r, p) ==
  /\ pc' = [pc EXCEPT ![r] = p]
  /\ idx' = idx
  /\ outcome' = [outcome EXCEPT ![r] = "-"]

\* variant: an exception in the loop body ends the loop
NextStory_AbortOnError(r, logged) ==
  /\ idx' = [idx EXCEPT ![r] = IF logged = "error" THEN @ ELSE @ + 1]
  /\ pc' = [pc EXCEPT ![r] =
         IF logged = "error" \/ idx[r] + 1 > Len(story_ids[r]) THEN "done" ELSE "fetch_item"]
  /\ outcome' = [outcome EXCEPT ![r] = logged]
  /\ Locals(r, None, None, None, NoReply)

\* `continue`, or falling off the end of the loop body: next identifier, or
\* the summary log line and return when the list is exhausted
NextStory(r, logged) ==
  /\ idx' = [idx EXCEPT ![r] = @ + 1]
  /\ pc' = [pc EXCEPT ![r] = IF idx[r] + 1 > Len(story_ids[r]) THEN "done" ELSE "fetch_item"]
  /\ outcome' = [outcome EXCEPT ![r] = logged]
  /\ Locals(r, None, None, None, NoReply)

\* story_ids[:limit]
Slice(ids, limit) ==
  IF limit >= 0 THEN SubSeq(ids, 1, Min(limit, Len(ids)))
  ELSE SubSeq(ids, 1, Len(ids) + limit)

\* hn_client.fetch_top_story_ids(limit) when the request succeeds with the
\* payload `feed`
fetch_top_story_ids(feed, limit) == Slice(feed, limit)

\* `max_stories = limit or HN_MAX_STORIES`: None and 0 are both falsy
max_stories(limit) ==
  IF limit = None \/ limit[1] = 0 THEN HN_MAX_STORIES ELSE limit[1]

\* ----------------------------------------------------------------- run_once
\* variant: the failure of the listing is logged and the loop entered anyway
StartRun_NoReturn(r, limit, feed, init_ok, list_ok) ==
  /\ ~Active(r)
  /\ UNCHANGED <<config, store, inserted>>
  /\ Locals(r, None, None, None, NoReply)
  /\ outcome' = [outcome EXCEPT ![r] = "-"]
  /\ storedAtStart' = [storedAtStart EXCEPT ![r] = {h \in Ids : inserted[h] > 0}]
  /\ attempted' = [attempted EXCEPT ![r] = <<>>]
  /\ processed_count' = [processed_count EXCEPT ![r] = 0]
  /\ saved_count' = [saved_count EXCEPT ![r] = 0]
  /\ story_ids' = [story_ids EXCEPT ![r] = IF init_ok THEN feed ELSE <<>>]
  /\ idx' = [idx EXCEPT ![r] = IF init_ok THEN 1 ELSE 0]
  /\ listing' = [listing EXCEPT ![r] =
         IF ~init_ok THEN "none" ELSE IF list_ok THEN "ok" ELSE "failed"]
  /\ pc' = [pc EXCEPT ![r] =
         IF ~init_ok THEN "raised" ELSE IF feed = <<>> THEN "done" ELSE "fetch_item"]

\* A call of run_once by a process whose previous call, if any, is over:
\* init_db(), max_stories, fetch_top_story_ids, the counters set to 0.
StartRun(r, limit, feed, init_ok, list_ok) ==
  /\ ~Active(r)
  /\ UNCHANGED <<config, store, inserted>>
  /\ Locals(r, None, None, None, NoReply)
  /\ outcome' = [outcome EXCEPT ![r] = "-"]
  /\ storedAtStart' = [storedAtStart EXCEPT ![r] = {h \in Ids : inserted[h] > 0}]
  /\ attempted' = [attempted EXCEPT ![r] = <<>>]
  /\ processed_count' = [processed_count EXCEPT ![r] = 0]
  /\ saved_count' = [saved_count EXCEPT ![r] = 0]
  /\ IF ~init_ok
     THEN /\ pc' = [pc EXCEPT ![r] = "raised"]
          /\ story_ids' = [story_ids EXCEPT ![r] = <<>>]
          /\ idx' = [idx EXCEPT ![r] = 0]
          /\ listing' = [listing EXCEPT ![r] = "none"]
     ELSE IF ~list_ok
     THEN /\ pc' = [pc EXCEPT ![r] = "done"]
          /\ story_ids' = [story_ids EXCEPT ![r] = <<>>]
          /\ idx' = [idx EXCEPT ![r] = 0]
          /\ listing' = [listing EXCEPT ![r] = "failed"]
     ELSE LET ids == fetch_top_story_ids(feed, max_stories(limit))
          IN  /\ story_ids' = [story_ids EXCEPT ![r] = ids]
              /\ listing' = [listing EXCEPT ![r] = "ok"]
              /\ idx' = [idx EXCEPT ![r] = 1]
              /\ pc' = [pc EXCEPT ![r] = IF ids = <<>> THEN "done" ELSE "fetch_item"]
\* fetch_item(story_id); `if not item: continue`
FetchItem(r, it) ==
  /\ pc[r] = "fetch_item"
  /\ UNCHANGED <<config, store, counters, story_ids, listing, storedAtStart, inserted>>
  /\ attempted' = [attempted EXCEPT ![r] = Append(@, story_ids[r][idx[r]])]
  /\ IF it = None
     THEN NextStory(r, "no_item")
     ELSE Goto(r, "filter") /\ Locals(r, it, None, None, NoReply)

\* the locals `score`, `title`, `url` of the loop body
ScoreOf(it) == Get(it[1].score, 0)
TitleOf(it) == Get(it[1].title, <<>>)
UrlOf(it) == it[1].url

\* `if url:` / `url or ""`
UrlPresent(url) == url # None /\ url[1] # <<>>

\* variant: a blacklist of the known non-story kind
KindSkip_JobOnly(it) == it[1].type = Some("job")

\* `if item.get("type") != "story": continue`
KindSkip(it) == it[1].type # Some("story")

\* variant: the default threshold written into the comparison
ScoreSkip_Default(it, min_score) == ScoreOf(it) < 10

\* `if score < SCRAPE_MIN_SCORE: continue`
ScoreSkip(it, min_score) == ScoreOf(it) < min_score

\* skip non-story types, check minimum score
FilterItem(r) ==
  /\ pc[r] = "filter"
  /\ UNCHANGED <<config, store, counters, story_ids, listing, storedAtStart, attempted, inserted>>
  /\ IF KindSkip(item[r])
     THEN NextStory(r, "skip_kind")
     ELSE IF ScoreSkip(item[r], SCRAPE_MIN_SCORE)
     THEN NextStory(r, "skip_score")
     ELSE Goto(r, "exists") /\ Locals(r, item[r], None, None, NoReply)

\* db.query(Story).filter(Story.hn_id == story_id)
RowsWithHnId(st, hn_id) == {i \in 1..Len(st) : st[i].hn_id = hn_id}

\* variant: the result of the query is not looked at
ExistsCheck_Ignored(r, db_ok) ==
  /\ pc[r] = "exists"
  /\ UNCHANGED <<config, store, counters, story_ids, listing, storedAtStart, attempted, inserted>>
  /\ IF ~db_ok
     THEN NextStory(r, "error")
     ELSE Goto(r, "keywords") /\ Locals(r, item[r], None, None, NoReply)

\* check if already in database; db_ok = FALSE: the query raises
ExistsCheck(r, db_ok) ==
  /\ pc[r] = "exists"
  /\ UNCHANGED <<config, store, counters, story_ids, listing, storedAtStart, attempted, inserted>>
  /\ IF ~db_ok
     THEN NextStory(r, "error")
     ELSE IF RowsWithHnId(store, story_ids[r][idx[r]]) # {}
     THEN NextStory(r, "skip_exists")
     ELSE Goto(r, "keywords") /\ Locals(r, item[r], None, None, NoReply)

\* `if not matches_keywords(title, url) and score < 50: continue`
KeywordSkip(KW, it) ==
  ~matches_keywords(KW, TitleOf(it), UrlOf(it)) /\ ScoreOf(it) < 50

KeywordFilter(r) ==
  /\ pc[r] = "keywords"
  /\ UNCHANGED <<config, store, counters, story_ids, listing, storedAtStart, attempted, inserted>>
  /\ IF KeywordSkip(KEYWORDS, item[r])
     THEN NextStory(r, "skip_keywords")
     ELSE Goto(r, "extract") /\ Locals(r, item[r], None, None, NoReply)

\* variant: an item without article text is dropped
Extract_TextRequired(r, newspaper, primary, fallback) ==
  /\ pc[r] = "extract"
  /\ UNCHANGED <<config, store, counters, story_ids, listing, storedAtStart, attempted, inserted>>
  /\ LET url == UrlOf(item[r])
         text == IF UrlPresent(url)
                 THEN fetch_article_text(url[1], newspaper, primary, fallback)
                 ELSE None
     IN  IF text = None
         THEN NextStory(r, "error")
         ELSE Goto(r, "classify") /\ Locals(r, item[r], text, None, NoReply)

\* fetch article text if URL present
Extract(r, newspaper, primary, fallback) ==
  /\ pc[r] = "extract"
  /\ UNCHANGED <<config, store, counters, story_ids, listing, storedAtStart, attempted, inserted>>
  /\ Goto(r, "classify")
  /\ LET url == UrlOf(item[r])
         text == IF UrlPresent(url)
                 THEN fetch_article_text(url[1], newspaper, primary, fallback)
                 ELSE None
     IN  Locals(r, item[r], text, None, NoReply)

\* variant: a failed upstream call is tried again
Classify_Retry(r, rep) ==
  /\ pc[r] = "classify"
  /\ UNCHANGED <<config, store, counters, story_ids, listing, storedAtStart, attempted, inserted>>
  /\ IF ~rep.ok
     THEN Goto(r, "classify") /\ Locals(r, item[r], article_text[r], None, rep)
     ELSE /\ Goto(r, "verdict")
          /\ LET cls == classify_and_summarize(TitleOf(item[r]), Get(UrlOf(item[r]), <<>>),
                                               article_text[r], rep)
             IN  Locals(r, item[r], article_text[r], cls, rep)

\* classification = classify_and_summarize(title, url or "", article_text)
Classify(r, rep) ==
  /\ pc[r] = "classify"
  /\ UNCHANGED <<config, store, counters, story_ids, listing, storedAtStart, attempted, inserted>>
  /\ Goto(r, "verdict")
  /\ LET cls == classify_and_summarize(TitleOf(item[r]), Get(UrlOf(item[r]), <<>>),
                                       article_text[r], rep)
     IN  Locals(r, item[r], article_text[r], cls, rep)

\* variant: relatedness read from the relevance score
Unrelated_ByRelevance(cls) == cls[1].relevance = 0

\* `classification.get("is_related", False)` is falsy
Unrelated(cls) == ~cls[1].is_related

\* `if not classification: continue`, then skip if not related
CheckVerdict(r) ==
  /\ pc[r] = "verdict"
  /\ UNCHANGED <<config, store, counters, story_ids, listing, storedAtStart, attempted, inserted>>
  /\ IF classification[r] = None
     THEN NextStory(r, "classification_failed")
     ELSE IF Unrelated(classification[r])
     THEN NextStory(r, "skip_unrelated")
     ELSE Goto(r, "save") /\ Locals(r, item[r], article_text[r], classification[r], reply[r])

\* variant: slice one character too long
Truncate_OffByOne(text) ==
  IF text # None /\ text[1] # <<>> /\ TextLen(text[1]) > MAX_TEXT_LENGTH
  THEN Some(Take(text[1], MAX_TEXT_LENGTH + 1))
  ELSE text

\* truncate text to safe length
Truncate(text) ==
  IF text # None /\ text[1] # <<>> /\ TextLen(text[1]) > MAX_TEXT_LENGTH
  THEN Some(Take(text[1], MAX_TEXT_LENGTH))
  ELSE text

\* variant: hn_id taken from the row counter instead of the feed identifier
Story_WrongKey(st, hn_id, it, text, cls) ==
  [id |-> Len(st) + 1, hn_id |-> 0 - (Len(st) + 1), title |-> TitleOf(it), url |-> UrlOf(it),
   text |-> text, score |-> ScoreOf(it),
   category |-> cls[1].category, subcategory |-> cls[1].subcategory,
   summary |-> cls[1].summary, tags |-> cls[1].tags, relevance |-> cls[1].relevance,
   is_processed |-> TRUE]

\* Story(hn_id=..., ..., is_processed=True); id is the autoincrement key
Story(st, hn_id, it, text, cls) ==
  [id |-> Len(st) + 1, hn_id |-> hn_id, title |-> TitleOf(it), url |-> UrlOf(it),
   text |-> text, score |-> ScoreOf(it),
   category |-> cls[1].category, subcategory |-> cls[1].subcategory,
   summary |-> cls[1].summary, tags |-> cls[1].tags, relevance |-> cls[1].relevance,
   is_processed |-> TRUE]

\* variant: the column declared without unique=True
UniqueViolation_Off(st, row) == FALSE

\* the unique constraint on stories.hn_id, checked by the database at commit
UniqueViolation(st, row) == \E i \in 1..Len(st) : st[i].hn_id = row.hn_id

\* variant: the insert written as a replace (INSERT OR REPLACE, a delete of
\* the stale row before the add): a row with the same hn_id gives way
Save_Replace(r, fault) ==
  /\ pc[r] = "save"
  /\ UNCHANGED <<config, story_ids, listing, storedAtStart, attempted>>
  /\ LET story_id == story_ids[r][idx[r]]
         story == Story(store, story_id, item[r], Truncate(article_text[r]),
                        classification[r])
         others == SelectSeq(store, LAMBDA row : row.hn_id # story_id)
     IN  IF fault = "none"
         THEN /\ store' = Append(others, story)
              /\ inserted' = [inserted EXCEPT ![story_id] = @ + 1]
              /\ saved_count' = [saved_count EXCEPT ![r] = @ + 1]
              /\ processed_count' = [processed_count EXCEPT ![r] = @ + 1]
              /\ NextStory(r, "saved")
         ELSE /\ store' = store
              /\ inserted' = inserted
              /\ saved_count' = saved_count
              /\ IF fault = "rollback"
                 THEN processed_count' = processed_count /\ NextStory(r, "error")
                 ELSE /\ processed_count' = [processed_count EXCEPT ![r] = @ + 1]
                      /\ NextStory(r, "save_failed")

\* variant: `saved_count += 1` placed next to `processed_count += 1`, after
\* the try statement
Save_CountAfterTry(r, fault) ==
  /\ pc[r] = "save"
  /\ UNCHANGED <<config, story_ids, listing, storedAtStart, attempted>>
  /\ LET story_id == story_ids[r][idx[r]]
         story == Story(store, story_id, item[r], Truncate(article_text[r]),
                        classification[r])
     IN  IF fault = "none" /\ ~UniqueViolation(store, story)
         THEN /\ store' = Append(store, story)
              /\ inserted' = [inserted EXCEPT ![story_id] = @ + 1]
              /\ saved_count' = [saved_count EXCEPT ![r] = @ + 1]
              /\ processed_count' = [processed_count EXCEPT ![r] = @ + 1]
              /\ NextStory(r, "saved")
         ELSE /\ store' = store
              /\ inserted' = inserted
              /\ IF fault = "rollback"
                 THEN /\ processed_count' = processed_count
                      /\ saved_count' = saved_count
                      /\ NextStory(r, "error")
                 ELSE /\ processed_count' = [processed_count EXCEPT ![r] = @ + 1]
                      /\ saved_count' = [saved_count EXCEPT ![r] = @ + 1]
                      /\ NextStory(r, "save_failed")

\* Save to database.  fault: "none", "commit" (the commit raises for a reason
\* other than the unique constraint), "rollback" (the commit fails and the
\* rollback raises too, which the loop's outer handler catches).
Save(r, fault) ==
  /\ pc[r] = "save"
  /\ UNCHANGED <<config, story_ids, listing, storedAtStart, attempted>>
  /\ LET story_id == story_ids[r][idx[r]]
         story == Story(store, story_id, item[r], Truncate(article_text[r]),
                        classification[r])
     IN  IF fault = "none" /\ ~UniqueViolation(store, story)
         THEN /\ store' = Append(store, story)
              /\ inserted' = [inserted EXCEPT ![story_id] = @ + 1]
              /\ saved_count' = [saved_count EXCEPT ![r] = @ + 1]
              /\ processed_count' = [processed_count EXCEPT ![r] = @ + 1]
              /\ NextStory(r, "saved")
         ELSE /\ store' = store
              /\ inserted' = inserted
              /\ saved_count' = saved_count
              /\ IF fault = "rollback"
                 THEN processed_count' = processed_count /\ NextStory(r, "error")
                 ELSE /\ processed_count' = [processed_count EXCEPT ![r] = @ + 1]
                      /\ NextStory(r, "save_failed")

Faults == {"none", "commit", "rollback"}

\* ------------------------------------------------------------ specifications
\* Spec: one process calling run_once again and again (a scheduler, a cron
\* entry), each run to its end before the next.
Start(r) ==
  \/ StartRun(r, None, <<>>, FALSE, TRUE)
  \/ \E feed \in Feeds : StartRun(r, None, feed, TRUE, FALSE)
  \/ \E limit \in Limits, feed \in Feeds : StartRun(r, limit, feed, TRUE, TRUE)

Step(r) ==
  \/ \E it \in Items : FetchItem(r, it)
  \/ FilterItem(r)
  \/ \E db_ok \in BOOLEAN : ExistsCheck(r, db_ok)
  \/ KeywordFilter(r)
  \/ \E newspaper \in BOOLEAN, primary \in PrimaryResults, fallback \in FallbackResults :
        Extract(r, newspaper, primary, fallback)
  \/ \E rep \in Replies : Classify(r, rep)
  \/ CheckVerdict(r)
  \/ \E fault \in Faults : Save(r, fault)

Next == Start(Main) \/ Step(Main)

Spec == Init /\ [][Next]_vars

\* FairSpec: the interpreter keeps executing the running call; every external
\* call in the loop is bounded by a timeout, so each step completes.
FairSpec == Init /\ [][Next]_vars /\ WF_vars(Step(Main))

\* FnSpec: one call of a function on its own, its arguments drawn from the
\* cases its branches tell apart, and the step that returns its value.
Page100 == <<Seg("a", 100)>>
PageBlank == <<Seg(" ", 150)>>

ExtractPages == {PageShort, PagePadded, Page100, PageBlank, PageOk, PageOver}

ExtractResults == {None} \cup {Some(page) : page \in ExtractPages}

\* fetch_article_text(url) with what its two strategies meet on the network;
\* out is None until the call returns, then Some(return value)
ExtractCalls ==
  [fn : {"fetch_article_text"}, url : {<<>>, <<"u">>}, newspaper : BOOLEAN,
   primary : ExtractResults, fallback : ExtractResults, out : {None}]

CallLimits == {None, Some(0), Some(1), Some(2), Some(3)}

\* run_once(limit) up to its story_ids, the feed answering with `feed`
ListCalls == [fn : {"story_ids"}, limit : CallLimits, feed : Feeds, out : {None}]

run_state ==
  <<KEYWORDS, SCRAPE_MIN_SCORE, store, pc, story_ids, idx, item, article_text,
    classification, processed_count, saved_count, listing, storedAtStart,
    attempted, reply, outcome, inserted>>

ReturnArticleText ==
  /\ call.fn = "fetch_article_text" /\ call.out = None
  /\ call' = [call EXCEPT !.out =
         Some(fetch_article_text(call.url, call.newspaper, call.primary, call.fallback))]
  /\ UNCHANGED run_state

ReturnStoryIds ==
  /\ call.fn = "story_ids" /\ call.out = None
  /\ call' = [call EXCEPT !.out =
         Some(fetch_top_story_ids(call.feed, max_stories(call.limit)))]
  /\ UNCHANGED run_state

FnInit ==
  /\ KEYWORDS = <<>>
  /\ SCRAPE_MIN_SCORE = 10
  /\ Idle
  /\ (call \in ExtractCalls \/ call \in ListCalls)

FnNext == ReturnArticleText \/ ReturnStoryIds

FnSpec == FnInit /\ [][FnNext]_vars

\* ConcSpec: several processes (cron jobs, workers) run the scraper against
\* one database, their steps interleaved; inputs are the few that matter to
\* the race between the existence check and the insert.
RaceStep(r) ==
  \/ \E it \in RaceItems : FetchItem(r, it)
  \/ FilterItem(r)
  \/ ExistsCheck(r, TRUE)
  \/ KeywordFilter(r)
  \/ Extract(r, FALSE, None, Some(PageOk))
  \/ \E rep \in RaceReplies : Classify(r, rep)
  \/ CheckVerdict(r)
  \/ Save(r, "none")

RaceStart(r) ==
  /\ pc[r] = "idle"
  /\ \E feed \in RaceFeeds : StartRun(r, None, feed, TRUE, TRUE)

ConcInit == Init /\ KEYWORDS = <<>> /\ SCRAPE_MIN_SCORE = 10

ConcNext == \E r \in Procs : RaceStart(r) \/ RaceStep(r)

ConcSpec == ConcInit /\ [][ConcNext]_vars
\* ------------------------------------------------------------------ claims
Rows(st) == {st[i] : i \in 1..Len(st)}

PastFilter == {"exists", "keywords", "extract", "classify", "verdict", "save"}

\* the process p takes a step of its run_once call
Moves(p) == <<pc[p], idx[p]>>' # <<pc[p], idx[p]>>

\* p's step commits a new row
Commits(p) == pc[p] = "save" /\ Moves(p) /\ Len(store') = Len(store) + 1

\* C1: runs made one after the other insert every identifier at most once
\* in total, and a run saves nothing for an identifier that was stored when
\* the run started: its saved count is at most the number of identifiers it
\* attempted that were not stored at its start (0 when all of them were).
C1_Idempotent ==
  /\ \A h \in Ids : inserted[h] <= 1
  /\ \A p \in Procs :
       saved_count[p] <=
         Cardinality({i \in 1..Len(attempted[p]) : attempted[p][i] \notin storedAtStart[p]})

\* a second run has ended that attempted stored identifiers only, saving none
C1_Witness ==
  /\ pc[Main] = "done" /\ listing[Main] = "ok"
  /\ Len(attempted[Main]) = 2
  /\ \A i \in 1..2 : attempted[Main][i] \in storedAtStart[Main]
  /\ saved_count[Main] = 0 /\ Len(store) = 2

\* C2: under every interleaving the table never holds two rows with one
\* hn_id, and a process whose insert meets a row committed after its own
\* existence check leaves the table alone, does not raise, and moves on to
\* its next identifier (or to the end of its list).
C2_RaceIsBenign ==
  [][ /\ \A i, j \in 1..Len(store') : store'[i].hn_id = store'[j].hn_id => i = j
      /\ \A p \in Procs :
           (pc[p] = "save" /\ Moves(p) /\ inserted[story_ids[p][idx[p]]] > 0) =>
              /\ store' = store
              /\ idx'[p] = idx[p] + 1
              /\ pc'[p] = IF idx[p] < Len(story_ids[p]) THEN "fetch_item" ELSE "done"
              /\ outcome'[p] = "save_failed" ]_vars

\* a process lost the race on its first identifier and is at its second
C2_Witness ==
  \E p \in Procs :
     /\ outcome[p] = "save_failed" /\ pc[p] = "fetch_item" /\ idx[p] = 2
     /\ \E i \in 1..Len(store) : store[i].hn_id = story_ids[p][1]

\* C3: an item whose kind is not "story" (or is missing) is held by a run
\* only between its fetch and the kind check; the step that checks it stores
\* nothing, and the run is never at the Extractor, the Classifier or the
\* insert with such an item.
C3_NonStoryNeverProcessed ==
  [][ \A p \in Procs :
        /\ (item'[p] # None /\ item'[p][1].type # Some("story")) => pc'[p] = "filter"
        /\ (item[p] # None /\ item[p][1].type # Some("story") /\ Moves(p)) =>
              /\ store' = store
              /\ outcome'[p] = "skip_kind"
              /\ pc'[p] \notin PastFilter ]_vars

\* a story was stored and the next item, a non-story, was skipped
C3_Witness == outcome[Main] = "skip_kind" /\ idx[Main] = 3 /\ Len(store) = 1

\* C4: every stored row has score >= SCRAPE_MIN_SCORE, and a run is past the
\* score check only with an item that has a score and whose score is at
\* least the threshold (a missing score counts as 0).
C4_ScoreAtLeastThreshold ==
  /\ \A row \in Rows(store) : row.score >= SCRAPE_MIN_SCORE
  /\ \A p \in Procs :
       pc[p] \in PastFilter =>
         \/ item[p][1].score # None /\ item[p][1].score[1] >= SCRAPE_MIN_SCORE
         \/ item[p][1].score = None /\ SCRAPE_MIN_SCORE <= 0

\* under the threshold 50 a row is stored and a later item was skipped for
\* its score
C4_Witness ==
  SCRAPE_MIN_SCORE = 50 /\ outcome[Main] = "skip_score" /\ Len(store) = 1

\* C5: a row is added only by a run at its insert step whose classify call
\* for this item returned a verdict with is_related true, and every row has
\* is_processed set.
C5_OnlyRelatedStored ==
  [][ /\ \A row \in Rows(store') : row.is_processed = TRUE
      /\ store' # store =>
           \E p \in Procs :
              /\ Commits(p)
              /\ classification[p] # None
              /\ classification[p][1].is_related = TRUE
              /\ reply[p].ok
              /\ store' = Append(store, store'[Len(store')])
              /\ store'[Len(store')].hn_id = story_ids[p][idx[p]] ]_vars

\* a related item was stored, then an unrelated one was skipped
C5_Witness == outcome[Main] = "skip_unrelated" /\ Len(store) = 1

\* prefix relation on texts
RECURSIVE IsPrefix(_, _)
IsPrefix(a, b) ==
  \/ a = <<>>
  \/ /\ b # <<>>
     /\ a[1].c = b[1].c
     /\ IF Len(a) = 1 THEN a[1].n <= b[1].n
        ELSE a[1].n = b[1].n /\ IsPrefix(Tail(a), Tail(b))

\* C6: every row has no text or a text of at most 20000 characters; the
\* insert stores an extracted text longer than 20000 as its first 20000
\* characters, and any other text (or no text) unchanged.
C6_TextCapped ==
  [][ /\ \A row \in Rows(store') :
           row.text = None \/ TextLen(row.text[1]) <= 20000
      /\ \A p \in Procs :
           Commits(p) =>
             LET new == store'[Len(store')].text
                 old == article_text[p]
             IN  IF old # None /\ TextLen(old[1]) > 20000
                 THEN /\ new # None
                      /\ TextLen(new[1]) = 20000
                      /\ IsPrefix(new[1], old[1])
                 ELSE new = old ]_vars

\* the table holds a truncated text and an untruncated one
C6_Witness ==
  /\ \E row \in Rows(store) : row.text # None /\ TextLen(row.text[1]) = 20000
  /\ \E row \in Rows(store) : row.text # None /\ TextLen(row.text[1]) = 101

\* C7: whenever the decoded upstream object lacks one of the six required
\* keys, classify_and_summarize returns absent.
C7_MissingKeyGivesAbsent ==
  \A p \in Procs :
     (pc[p] = "verdict" /\ reply[p].ok) =>
        LET decoded == json_loads(json_match(reply[p].content))
        IN  (decoded # None /\ \E k \in RequiredKeys : decoded[1][k] = None) =>
               classification[p] = None

\* C8: once a run has its identifier list, it reaches its end having passed
\* every identifier of the list to fetch_item, in the order of the list,
\* whatever failed on the way.
C8_EveryIdentifierAttempted ==
  (listing[Main] = "ok" /\ pc[Main] # "done") ~>
     (pc[Main] = "done" /\ attempted[Main] = story_ids[Main])

\* the first identifier of two ended in an exception and the loop is at the
\* second
C8_Witness ==
  /\ outcome[Main] = "error" /\ pc[Main] = "fetch_item" /\ idx[Main] = 2
  /\ Len(story_ids[Main]) = 2 /\ attempted[Main] = <<story_ids[Main][1]>>

\* title and URL, each lower-cased, contain none of the keywords
NoKeywordIn(KW, it) ==
  \A k \in 1..Len(KW) :
     /\ ~Contains(StrLower(Get(it[1].title, <<>>)), KW[k])
     /\ ~Contains(StrLower(Get(it[1].url, <<>>)), KW[k])

\* C9: with a non-empty keyword list, an item with score < 50 whose title
\* and URL contain none of the keywords is skipped at the keyword filter,
\* before extraction and classification, and not stored; every other item
\* passes the keyword filter.
C9_KeywordFilter ==
  [][ \A p \in Procs :
        (pc[p] = "keywords" /\ Moves(p)) =>
           IF /\ KEYWORDS # <<>>
              /\ item[p][1].score[1] < 50
              /\ NoKeywordIn(KEYWORDS, item[p])
           THEN outcome'[p] = "skip_keywords" /\ store' = store /\ pc'[p] \notin PastFilter
           ELSE pc'[p] = "extract" /\ idx'[p] = idx[p] ]_vars

\* C10: a run whose listing fails ends at once: it has fetched no item, is
\* at no later step, and the step leaves the table as it was.
C10_ListingFailureAborts ==
  [][ \A p \in Procs :
        listing'[p] = "failed" =>
           /\ pc'[p] = "done"
           /\ attempted'[p] = <<>>
           /\ item'[p] = None /\ article_text'[p] = None /\ classification'[p] = None
           /\ processed_count'[p] = 0 /\ saved_count'[p] = 0
           /\ store' = store ]_vars

\* a run over a non-empty table stopped at the failed listing
C10_Witness ==
  listing[Main] = "failed" /\ pc[Main] = "done" /\ Len(store) = 2

\* C11: no call of run_once ends by raising to its caller, whatever fails
\* on the way: the initialisation of the store, a detail fetch, the existence
\* check, the extraction, the classification or the insert.
C11_NeverRaises == \A p \in Procs : pc[p] # "raised"

\* C12: every step of every run, the steps of concurrent runs interleaved,
\* leaves each row of the table where it was and as it was, a step whose
\* insert is rejected and rolled back included; the table changes only by a
\* new row added after the rows it had.
C12_AppendOnly ==
  [][ /\ Len(store') >= Len(store)
      /\ \A i \in 1..Len(store) : store'[i] = store[i]
      /\ \A p \in Procs :
           (pc[p] = "save" /\ Moves(p) /\ outcome'[p] # "saved") => store' = store ]_vars

\* two rows are stored and a process has had its insert rejected
C12_Witness ==
  /\ Len(store) = 2
  /\ \E p \in Procs : outcome[p] = "save_failed" /\ saved_count[p] < processed_count[p]

\* stages of the loop body that follow the existence check
AfterExists == {"keywords", "extract", "classify", "verdict", "save"}

\* C13: a run whose existence check finds the identifier in the table ends
\* the iteration there: no keyword filter, no Extractor, no Classifier and no
\* insert for it, the table unchanged; and the keyword filter, the
\* extraction and the classification of an item are entered only in that
\* order, starting from an existence check that found no row.
C13_ExistsGuardFirst ==
  [][ \A p \in Procs :
        /\ (pc[p] = "exists" /\ Moves(p) /\ RowsWithHnId(store, story_ids[p][idx[p]]) # {}) =>
              /\ pc'[p] \notin AfterExists \cup {"exists"}
              /\ idx'[p] = idx[p] + 1
              /\ outcome'[p] \in {"skip_exists", "error"}
              /\ store' = store
        /\ (pc'[p] = "keywords" /\ Moves(p)) =>
              pc[p] = "exists" /\ RowsWithHnId(store, story_ids[p][idx[p]]) = {}
        /\ (pc'[p] = "extract" /\ Moves(p)) => pc[p] = "keywords"
        /\ (pc'[p] = "classify" /\ Moves(p)) => pc[p] = "extract"
        /\ (pc'[p] \in {"verdict", "save"} /\ Moves(p)) => pc[p] \in {"classify", "verdict"}
        /\ (pc'[p] \in AfterExists /\ Moves(p)) => idx'[p] = idx[p] ]_vars

\* the first identifier of the list was found in the table and skipped, and
\* the run is at its second identifier
C13_Witness ==
  /\ outcome[Main] = "skip_exists" /\ pc[Main] = "fetch_item" /\ idx[Main] = 2
  /\ story_ids[Main][1] \in storedAtStart[Main]

\* the classification call failed upstream, or json.loads rejected the text
\* taken from its response
ClassificationFailed(rep) == ~rep.ok \/ json_loads(json_match(rep.content)) = None

\* C14: a run that holds the result of a classification call that failed
\* upstream or whose response did not decode stores nothing for the item: its
\* next step leaves the table alone and moves to the next identifier (or to
\* the end of the list), and the run is never at the insert with such a reply.
C14_FailedClassificationSkips ==
  [][ \A p \in Procs :
        /\ (pc[p] = "verdict" /\ Moves(p) /\ ClassificationFailed(reply[p])) =>
              /\ store' = store
              /\ idx'[p] = idx[p] + 1
              /\ pc'[p] = IF idx[p] < Len(story_ids[p]) THEN "fetch_item" ELSE "done"
              /\ outcome'[p] \in {"classification_failed", "skip_unrelated"}
        /\ pc'[p] = "save" => ~ClassificationFailed(reply'[p]) ]_vars

\* with one row stored, the call for the first of two identifiers failed
\* upstream and returned the fallback verdict
C14_Witness ==
  /\ pc[Main] = "verdict" /\ ~reply[Main].ok
  /\ classification[Main] = Some(DefaultVerdict)
  /\ idx[Main] = 1 /\ Len(story_ids[Main]) = 2 /\ Len(store) = 1

\* C15: the extraction step always hands the item on to the Classifier,
\* with no text when the item has no URL (whatever the Extractor would have
\* produced: it is not called) or when the Extractor returned none; the
\* Classifier is called with that text, and an insert that commits for an
\* item without text stores a row without text.
C15_ExtractionFailureNonFatal ==
  [][ \A p \in Procs :
        /\ (pc[p] = "extract" /\ Moves(p)) =>
              /\ pc'[p] = "classify" /\ idx'[p] = idx[p] /\ item'[p] = item[p]
              /\ ~UrlPresent(item[p][1].url) => article_text'[p] = None
              /\ store' = store
        /\ (pc[p] = "classify" /\ Moves(p)) =>
              /\ pc'[p] = "verdict" /\ idx'[p] = idx[p]
              /\ article_text'[p] = article_text[p]
              /\ classification'[p] # None
        /\ (Commits(p) /\ article_text[p] = None) => store'[Len(store')].text = None ]_vars

\* the table holds a row for an item with a URL whose extraction failed and
\* a row for an item without URL, both without text
C15_Witness ==
  /\ \E row \in Rows(store) : row.url # None /\ row.text = None
  /\ \E row \in Rows(store) : row.url = None /\ row.text = None

\* trimmed length of what a strategy produced exceeds 100
Accepted(res) == res # None /\ TextLen(Strip(res[1])) > 100

\* C16: called with a URL, fetch_article_text returns the primary strategy's
\* text exactly when the primary strategy ran without error and its text has
\* trimmed length > 100; otherwise it returns the fallback's text, trimmed,
\* exactly when that has trimmed length > 100; otherwise it returns absent.
\* It returns on every input, and a returned text has trimmed length > 100.
C16_ExtractChain ==
  (call.fn = "fetch_article_text" /\ call.out # None /\ call.url # <<>>) =>
     LET res == call.out[1]
         primary == IF call.newspaper THEN call.primary ELSE None
     IN  /\ IF Accepted(primary) THEN res = primary
            ELSE IF Accepted(call.fallback)
                 THEN res # None /\ Strip(res[1]) = Strip(call.fallback[1])
            ELSE res = None
         /\ res # None => TextLen(Strip(res[1])) > 100

\* the primary strategy gave 80 characters between whitespace, the fallback
\* 101, and the fallback's text was returned
C16_Witness ==
  /\ call.fn = "fetch_article_text" /\ call.out # None /\ call.url # <<>>
  /\ call.newspaper /\ call.primary = Some(PagePadded) /\ call.fallback = Some(PageOk)
  /\ call.out[1] # None /\ TextLen(call.out[1][1]) = 101

\* C17: run_once(limit) works on the first maxCount identifiers of the
\* feed's ranking (all of them when there are fewer), where maxCount is the
\* limit argument whenever one is given, 0 included, and the configured
\* default only when none is given.
C17_MaxCountResolution ==
  (call.fn = "story_ids" /\ call.out # None) =>
     LET maxCount == IF call.limit = None THEN HN_MAX_STORIES ELSE call.limit[1]
         ids == call.out[1]
     IN  /\ Len(ids) = Min(maxCount, Len(call.feed))
         /\ \A i \in 1..Len(ids) : ids[i] = call.feed[i]

\* a well-formed JSON object starts at position i of the response
ObjectAt(content, i) ==
  /\ content[i] = "{"
  /\ \/ i + 1 <= Len(content) /\ content[i + 1] = "}"
     \/ i + 2 <= Len(content) /\ content[i + 1] \in Bodies /\ content[i + 2] = "}"

\* the first well-formed JSON object of the response, None when it has none
FirstObject(content) ==
  LET starts == {i \in 1..Len(content) : ObjectAt(content, i)}
  IN  IF starts = {} THEN None
      ELSE LET i == SetMin(starts)
           IN  IF content[i + 1] = "}" THEN Some(EmptyObject)
               ELSE Some(BodyObject(content[i + 1]))

\* C18: when the response of a successful call contains a well-formed JSON
\* object, whatever prose, fences or further braces surround it, the verdict
\* returned is the one built from the first such object.
C18_FirstObjectDecoded ==
  \A p \in Procs :
     (pc[p] = "verdict" /\ reply[p].ok /\ FirstObject(reply[p].content) # None) =>
        classification[p] = Some(VerdictOf(FirstObject(reply[p].content)[1]))

\* rows the current (or last) run of p has added, p being the only process
\* that runs: the table holds one row per stored identifier
RowsAddedBy(p) == Len(store) - Cardinality(storedAtStart[p])

StageRank ==
  [s \in {"fetch_item", "filter", "exists", "keywords", "extract", "classify",
          "verdict", "save"} |->
     CASE s = "fetch_item" -> 1 [] s = "filter" -> 2 [] s = "exists" -> 3
       [] s = "keywords" -> 4 [] s = "extract" -> 5 [] s = "classify" -> 6
       [] s = "verdict" -> 7 [] s = "save" -> 8]

\* how an iteration can end: stored, or skipped for one of these reasons
Skipped ==
  {"no_item", "skip_kind", "skip_score", "skip_exists", "skip_keywords",
   "classification_failed", "skip_unrelated", "save_failed", "error"}

\* p's running call does something
Acts(p) ==
  <<pc[p], idx[p], item[p], article_text[p], classification[p], reply[p]>>' #
  <<pc[p], idx[p], item[p], article_text[p], classification[p], reply[p]>>

\* C20: every step of a running call either takes the current identifier to
\* the next stage of the fixed order (detail fetch, kind and score filters,
\* existence check, keyword filter, extraction, classification, verdict,
\* insert), or ends it, stored or skipped, and moves to the next identifier
\* for good; it is stored exactly when the insert step added its row.  No
\* stage is entered twice for an identifier occurrence, and the detail
\* fetches made so far are one per identifier reached, in the list's order.
C20_ItemStateMachine ==
  [][ \A p \in Procs :
        (Active(p) /\ Acts(p)) =>
           /\ \/ /\ idx'[p] = idx[p]
                 /\ Active(p)'
                 /\ StageRank[pc'[p]] = StageRank[pc[p]] + 1
                 /\ outcome'[p] = "-"
                 /\ store' = store
              \/ /\ idx'[p] = idx[p] + 1
                 /\ pc'[p] = IF idx[p] < Len(story_ids[p]) THEN "fetch_item" ELSE "done"
                 /\ outcome'[p] \in Skipped \cup {"saved"}
                 /\ outcome'[p] = "saved" <=> (pc[p] = "save" /\ Len(store') = Len(store) + 1)
                 /\ outcome'[p] \in Skipped => store' = store
           /\ story_ids'[p] = story_ids[p]
           /\ attempted'[p] = SubSeq(story_ids[p], 1,
                                     IF pc'[p] = "fetch_item" THEN idx'[p] - 1
                                     ELSE Min(idx'[p], Len(story_ids[p]))) ]_vars

\* a run of two identifiers has ended, the first stored and the second
\* skipped at the keyword filter
C20_Witness ==
  /\ pc[Main] = "done" /\ listing[Main] = "ok" /\ Len(story_ids[Main]) = 2
  /\ attempted[Main] = story_ids[Main]
  /\ saved_count[Main] = 1 /\ outcome[Main] = "skip_keywords"
====
